---- MODULE Spec2Model ----
(***************************************************************************)
(* Research session orchestration of gradio_app.py: conduct_research, the  *)
(* coroutine behind the "Start Research" button, and run_research_wrapper, *)
(* which runs one conduct_research per click on a worker thread.           *)
(*                                                                         *)
(* Texts (Python str) are sequences of tokens; a token is a character or a *)
(* fixed piece of text that the code never looks inside.  Loosely typed    *)
(* values (the entries of the engine's result mapping) are tagged records. *)
(***************************************************************************)
EXTENDS Integers, Sequences, FiniteSets, TLC

\* ------------------------------------------------------------ bounds
\* longest list of uploaded files
MaxFiles == 2
\* longest sources_gathered list the engine returns
MaxSources == 2
\* how far outside the slider's range a max_loops argument may lie
OutOfRange == 1

\* ------------------------------------------------- program constants
\* gr.Slider(minimum=1, maximum=20, value=MAX_LOOPS)
SliderMin == 1
SliderMax == 20
\* MAX_LOOPS = int(os.environ.get("MAX_WEB_RESEARCH_LOOPS", "10"))
MAX_LOOPS == 10
LLM_PROVIDER == "openai"
LLM_MODEL == "o3-mini"

\* PROVIDERS: provider name -> ordered list of model identifiers
PROVIDERS ==
  [ openai    |-> <<"o4-mini", "o4-mini-high", "o3-mini", "o3-mini-reasoning", "gpt-4o">>,
    anthropic |-> <<"claude-sonnet-4", "claude-sonnet-4-thinking", "claude-3-7-sonnet",
                    "claude-3-7-sonnet-thinking">>,
    google    |-> <<"gemini-2.5-pro", "gemini-1.5-pro-latest", "gemini-1.5-flash-latest">>,
    groq      |-> <<"deepseek-r1-distill-llama-70b", "llama-3.3-70b-versatile",
                    "llama3-70b-8192">>,
    sambanova |-> <<"DeepSeek-V3-0324">> ]

\* PROVIDERS.get(provider, ["default"])
get_models_for_provider(provider) ==
  IF provider \in DOMAIN PROVIDERS THEN PROVIDERS[provider] ELSE <<"default">>

\* ------------------------------------------------------------- texts
\* Python's None, where an argument may be None instead of a str
NoneVal == "<None>"

IsStr(x) == x # NoneVal

Whitespace == {" ", "\t", "\n"}

RECURSIVE LStrip(_)
LStrip(s) ==
  IF s # <<>> /\ Head(s) \in Whitespace THEN LStrip(Tail(s)) ELSE s

RECURSIVE RStrip(_)
RStrip(s) ==
  IF s # <<>> /\ s[Len(s)] \in Whitespace THEN RStrip(SubSeq(s, 1, Len(s) - 1)) ELSE s

\* str.strip()
Strip(s) == RStrip(LStrip(s))

Digit(d) == <<"0", "1", "2", "3", "4", "5", "6", "7", "8", "9">>[d + 1]

RECURSIVE NatToStr(_)
NatToStr(n) ==
  IF n < 10 THEN <<Digit(n)>> ELSE NatToStr(n \div 10) \o <<Digit(n % 10)>>

\* str(n) of an int
IntToStr(n) == IF n < 0 THEN <<"-">> \o NatToStr(0 - n) ELSE NatToStr(n)

\* sep.join(parts), parts a sequence of texts
RECURSIVE Join(_, _)
Join(sep, parts) ==
  IF parts = <<>> THEN <<>>
  ELSE IF Len(parts) = 1 THEN parts[1]
  ELSE parts[1] \o sep \o Join(sep, Tail(parts))

\* ------------------------------------------------------------ values
\* a loosely typed Python value: t is its type, n its number (int), q its
\* tokens (str) or its elements (list); "missing" is an absent mapping key,
\* "none" is None
Missing == [t |-> "missing", n |-> 0, q |-> <<>>]
NoneV == [t |-> "none", n |-> 0, q |-> <<>>]
StrV(q) == [t |-> "str", n |-> 0, q |-> q]
IntV(n) == [t |-> "int", n |-> n, q |-> <<>>]
ListV(q) == [t |-> "list", n |-> 0, q |-> q]

\* result.get(key, default)
Get(result, key, default) ==
  IF result[key].t = "missing" THEN default ELSE result[key]

\* bool(v)
Truthy(v) ==
  CASE v.t = "int" -> v.n # 0
    [] OTHER -> v.q # <<>>

\* whether "for source in v" can start; an int raises TypeError
Iterable(v) == v.t \in {"str", "list"}

\* f"{v}"
Fmt(v) ==
  CASE v.t = "int" -> IntToStr(v.n)
    [] v.t = "str" -> v.q
    [] OTHER -> <<"[">> \o Join(<<", ">>, [i \in 1..Len(v.q) |-> <<v.q[i]>>]) \o <<"]">>

\* -------------------------------------------------------------- state
\* the UI sessions whose clicks may overlap
Req == {"A", "B"}

VARIABLES
  pc,                     \* where each request is in conduct_research
  inp,                    \* the arguments of each request
  progress,               \* fractions (x10) each request reported to gr.Progress
  next_file,              \* position of the file loop in uploaded_files
  file_contents,          \* the local list file_contents
  uploaded_data_content,  \* the local uploaded_data_content
  warnings,               \* files logged by logger.warning as unreadable
  env,                    \* os.environ, shared by every request of the process
  calls,                  \* arguments of each ResearchService.conduct_research call
  result,                 \* the mapping the engine returned
  err,                    \* the exception caught by the except clause, if any
  ret                     \* the triple conduct_research returned

vars == <<pc, inp, progress, next_file, file_contents, uploaded_data_content,
          warnings, env, calls, result, err, ret>>

\* ------------------------------------------------------------- inputs
FileIds == {"notes.txt", "data.csv", "scan.pdf"}
\* files that open(..., encoding='utf-8').read() can read; scan.pdf is binary
Readable == {"notes.txt", "data.csv"}
Content(f) == "text of " \o f

Injective(s) == \A i, j \in 1..Len(s) : i # j => s[i] # s[j]

\* gr.Files(file_count="multiple"): distinct uploaded files, in upload order
FileLists ==
  UNION {{s \in [1..n -> FileIds] : Injective(s)} : n \in 0..MaxFiles}

Queries ==
  { <<>>, <<" ", "\t", " ">>, <<"quantum computing trends">>,
    <<" ", "quantum computing trends", "\n">> }

LoopInputs ==
  ((SliderMin - OutOfRange)..SliderMin) \cup (SliderMax..(SliderMax + OutOfRange))

\* every argument tuple one session alone is explored with
SoloInputs ==
  [ query          : Queries,
    provider       : {"openai", "acme", NoneVal},
    model          : {"o3-mini", "bogus", NoneVal},
    max_loops      : LoopInputs,
    extra_effort   : BOOLEAN,
    minimum_effort : BOOLEAN,
    enable_steering : BOOLEAN,
    uploaded_files : FileLists ]

\* the argument tuples two overlapping sessions are explored with
ConcInputs ==
  [ query          : {<<" ">>, <<"quantum computing trends">>},
    provider       : {"openai", "sambanova", NoneVal},
    model          : {"o3-mini", "DeepSeek-V3-0324", NoneVal},
    max_loops      : {SliderMin, SliderMax},
    extra_effort   : {FALSE},
    minimum_effort : {FALSE},
    enable_steering : {FALSE},
    uploaded_files : {<<>>, <<"scan.pdf", "notes.txt">>} ]

SourceIds == {"https://a.com", "https://b.com"}

SourceLists == UNION {[1..n -> SourceIds] : n \in 0..MaxSources}

\* result mappings of the engine: each key absent, well typed or mistyped
Results ==
  [ running_summary     : {Missing, StrV(<<"Report body">>), IntV(42)},
    sources_gathered    : {Missing, IntV(42)} \cup {ListV(s) : s \in SourceLists},
    research_loop_count : {Missing, IntV(5), StrV(<<"five">>)} ]

ConcResults ==
  [ running_summary     : {StrV(<<"Report body">>)},
    sources_gathered    : {IntV(42), ListV(<<"https://a.com">>)},
    research_loop_count : {IntV(5)} ]

\* messages of the exceptions the engine raises
EngineErrors == {"engine failure"}

\* one session alone: the other is never started
Solo == \E r \in Req : pc[r] = "off"

Inputs == IF Solo THEN SoloInputs ELSE ConcInputs

EngineResults == IF Solo THEN Results ELSE ConcResults

NoInput ==
  [ query |-> <<>>, provider |-> NoneVal, model |-> NoneVal, max_loops |-> 0,
    extra_effort |-> FALSE, minimum_effort |-> FALSE, enable_steering |-> FALSE,
    uploaded_files |-> <<>> ]

NoResult ==
  [ running_summary |-> Missing, sources_gathered |-> Missing,
    research_loop_count |-> Missing ]

NoRet == [report |-> Missing, sources |-> <<>>, status |-> <<>>]

NoError == "<no exception>"

\* ------------------------------------------------------ pure helpers
\* the two emoji that open every status text
CrossMark == "(cross mark) "
CheckMark == "(check mark) "

\* return "", "", "(cross mark) Please enter a research query"
EmptyQueryReturn ==
  [ report |-> StrV(<<>>), sources |-> <<>>,
    status |-> <<CrossMark, "Please enter a research query">> ]

\* an except clause that hands the message back as the report as well
ExceptReturnReport(e) ==
  [ report |-> StrV(<<e>>), sources |-> <<>>,
    status |-> <<CrossMark, "Error during research: ", e>> ]

\* except Exception as e: return "", "", f"(cross mark) Error during research: {str(e)}"
ExceptReturn(e) ==
  [ report |-> StrV(<<>>), sources |-> <<>>,
    status |-> <<CrossMark, "Error during research: ", e>> ]

\* a guard that forgets strip(): not query
IsBlankNoStrip(query) == query = <<>>

\* not query or not query.strip()
IsBlank(query) == query = <<>> \/ Strip(query) = <<>>

\* f"=== File: {os.path.basename(file_path.name)} ===\n{content}\n"
FileBlock(f) == <<"=== File: ", f, " ===\n", Content(f), "\n">>

\* a rendering that loses the last source
BulletsDropLast(sources) ==
  Join(<<"\n">>, [i \in 1..(Len(sources) - 1) |-> <<"- ", sources[i]>>])

\* "\n".join([f"- {source}" for source in sources])
Bullets(sources) ==
  Join(<<"\n">>, [i \in 1..Len(sources) |-> <<"- ", sources[i]>>])

\* ... if sources else "No sources gathered"
SourcesText(sources) ==
  IF Truthy(sources) THEN Bullets(sources.q) ELSE <<"No sources gathered">>

\* f"(check mark) Research complete! Conducted {loop_count} research loops."
CompleteStatus(loop_count) ==
  <<CheckMark, "Research complete! Conducted ">> \o Fmt(loop_count)
    \o <<" research loops.">>

\* the value written to MAX_WEB_RESEARCH_LOOPS: str(max_loops)
LoopsToPublish(max_loops) == IntToStr(max_loops)

\* the keyword arguments of ResearchService.conduct_research
EngineArgs(i, content) ==
  [ query |-> i.query, extra_effort |-> i.extra_effort,
    minimum_effort |-> i.minimum_effort, provider |-> i.provider,
    model |-> i.model, streaming |-> FALSE, uploaded_data_content |-> content,
    steering_enabled |-> i.enable_steering ]

\* ------------------------------------------------------------ actions
Init ==
  /\ pc = [r \in Req |-> IF r = "A" THEN "idle" ELSE "off"]
  /\ inp = [r \in Req |-> NoInput]
  /\ progress = [r \in Req |-> <<>>]
  /\ next_file = [r \in Req |-> 1]
  /\ file_contents = [r \in Req |-> <<>>]
  /\ uploaded_data_content = [r \in Req |-> NoneV]
  /\ warnings = [r \in Req |-> <<>>]
  /\ env = [ LLM_PROVIDER |-> LLM_PROVIDER, LLM_MODEL |-> LLM_MODEL,
             MAX_WEB_RESEARCH_LOOPS |-> IntToStr(MAX_LOOPS) ]
  /\ calls = [r \in Req |-> <<>>]
  /\ result = [r \in Req |-> NoResult]
  /\ err = [r \in Req |-> NoError]
  /\ ret = [r \in Req |-> NoRet]

\* two sessions whose requests overlap
InitConc ==
  /\ pc = [r \in Req |-> "idle"]
  /\ inp = [r \in Req |-> NoInput]
  /\ progress = [r \in Req |-> <<>>]
  /\ next_file = [r \in Req |-> 1]
  /\ file_contents = [r \in Req |-> <<>>]
  /\ uploaded_data_content = [r \in Req |-> NoneV]
  /\ warnings = [r \in Req |-> <<>>]
  /\ env = [ LLM_PROVIDER |-> LLM_PROVIDER, LLM_MODEL |-> LLM_MODEL,
             MAX_WEB_RESEARCH_LOOPS |-> IntToStr(MAX_LOOPS) ]
  /\ calls = [r \in Req |-> <<>>]
  /\ result = [r \in Req |-> NoResult]
  /\ err = [r \in Req |-> NoError]
  /\ ret = [r \in Req |-> NoRet]

\* an except clause that tries the engine again instead of returning
CaughtRetry(r, e) ==
  /\ err' = [err EXCEPT ![r] = e]
  /\ ret' = ret
  /\ pc' = [pc EXCEPT ![r] = "call"]

\* the except clause: the exception e ends the request with an error triple
Caught(r, e) ==
  /\ err' = [err EXCEPT ![r] = e]
  /\ ret' = [ret EXCEPT ![r] = ExceptReturn(e)]
  /\ pc' = [pc EXCEPT ![r] = "done"]

\* run_research_wrapper(*args): asyncio.run(conduct_research(*args))
Submit(r) ==
  /\ pc[r] = "idle"
  /\ \E i \in Inputs : inp' = [inp EXCEPT ![r] = i]
  /\ pc' = [pc EXCEPT ![r] = "check"]
  /\ UNCHANGED <<progress, next_file, file_contents, uploaded_data_content,
                 warnings, env, calls, result, err, ret>>

\* the guard on the query, then progress(0.1)
CheckQuery(r) ==
  /\ pc[r] = "check"
  /\ IF IsBlank(inp[r].query)
       THEN /\ ret' = [ret EXCEPT ![r] = EmptyQueryReturn]
            /\ pc' = [pc EXCEPT ![r] = "done"]
            /\ UNCHANGED progress
       ELSE /\ progress' = [progress EXCEPT ![r] = Append(@, 1)]
            /\ pc' = [pc EXCEPT ![r] = "files"]
            /\ UNCHANGED ret
  /\ UNCHANGED <<inp, next_file, file_contents, uploaded_data_content,
                 warnings, env, calls, result, err>>

\* a file step whose progress(0.2) stands outside the "if uploaded_files"
BeginFilesAlwaysReports(r) ==
  /\ pc[r] = "files"
  /\ progress' = [progress EXCEPT ![r] = Append(@, 2)]
  /\ pc' = [pc EXCEPT ![r] = IF inp[r].uploaded_files # <<>> THEN "read"
                                                             ELSE "set_provider"]
  /\ UNCHANGED <<inp, next_file, file_contents, uploaded_data_content,
                 warnings, env, calls, result, err, ret>>

\* if uploaded_files: progress(0.2); file_contents = []
BeginFiles(r) ==
  /\ pc[r] = "files"
  /\ IF inp[r].uploaded_files # <<>>
       THEN /\ progress' = [progress EXCEPT ![r] = Append(@, 2)]
            /\ pc' = [pc EXCEPT ![r] = "read"]
       ELSE /\ pc' = [pc EXCEPT ![r] = "set_provider"]
            /\ UNCHANGED progress
  /\ UNCHANGED <<inp, next_file, file_contents, uploaded_data_content,
                 warnings, env, calls, result, err, ret>>

\* one iteration of "for file_path in uploaded_files"
ReadFile(r) ==
  /\ pc[r] = "read"
  /\ next_file[r] <= Len(inp[r].uploaded_files)
  /\ LET f == inp[r].uploaded_files[next_file[r]] IN
       IF f \in Readable
         THEN /\ file_contents' = [file_contents EXCEPT ![r] = Append(@, FileBlock(f))]
              /\ UNCHANGED warnings
         ELSE /\ warnings' = [warnings EXCEPT ![r] = Append(@, f)]
              /\ UNCHANGED file_contents
  /\ next_file' = [next_file EXCEPT ![r] = @ + 1]
  /\ UNCHANGED <<pc, inp, progress, uploaded_data_content, env, calls, result,
                 err, ret>>

\* after the loop: if file_contents: uploaded_data_content = "\n\n".join(...)
EndFiles(r) ==
  /\ pc[r] = "read"
  /\ next_file[r] > Len(inp[r].uploaded_files)
  /\ uploaded_data_content' =
       [uploaded_data_content EXCEPT
          ![r] = IF file_contents[r] # <<>>
                   THEN StrV(Join(<<"\n\n">>, file_contents[r]))
                   ELSE @]
  /\ pc' = [pc EXCEPT ![r] = "set_provider"]
  /\ UNCHANGED <<inp, progress, next_file, file_contents, warnings, env, calls,
                 result, err, ret>>

\* os.environ["LLM_PROVIDER"] = provider; a value that is no str raises TypeError
SetProvider(r) ==
  /\ pc[r] = "set_provider"
  /\ IF IsStr(inp[r].provider)
       THEN /\ env' = [env EXCEPT !.LLM_PROVIDER = inp[r].provider]
            /\ pc' = [pc EXCEPT ![r] = "set_model"]
            /\ UNCHANGED <<err, ret>>
       ELSE /\ Caught(r, "str expected, not NoneType")
            /\ UNCHANGED env
  /\ UNCHANGED <<inp, progress, next_file, file_contents, uploaded_data_content,
                 warnings, calls, result>>

\* os.environ["LLM_MODEL"] = model
SetModel(r) ==
  /\ pc[r] = "set_model"
  /\ IF IsStr(inp[r].model)
       THEN /\ env' = [env EXCEPT !.LLM_MODEL = inp[r].model]
            /\ pc' = [pc EXCEPT ![r] = "set_loops"]
            /\ UNCHANGED <<err, ret>>
       ELSE /\ Caught(r, "str expected, not NoneType")
            /\ UNCHANGED env
  /\ UNCHANGED <<inp, progress, next_file, file_contents, uploaded_data_content,
                 warnings, calls, result>>

\* os.environ["MAX_WEB_RESEARCH_LOOPS"] = str(max_loops); progress(0.3)
SetMaxLoops(r) ==
  /\ pc[r] = "set_loops"
  /\ env' = [env EXCEPT !.MAX_WEB_RESEARCH_LOOPS =
                          LoopsToPublish(inp[r].max_loops)]
  /\ progress' = [progress EXCEPT ![r] = Append(@, 3)]
  /\ pc' = [pc EXCEPT ![r] = "call"]
  /\ UNCHANGED <<inp, next_file, file_contents, uploaded_data_content, warnings,
                 calls, result, err, ret>>

\* research_request = ResearchRequest(...) is built and never read;
\* result = await ResearchService.conduct_research(...): the call is made
CallEngine(r) ==
  /\ pc[r] = "call"
  /\ calls' = [calls EXCEPT ![r] = Append(@, EngineArgs(inp[r], uploaded_data_content[r]))]
  /\ pc' = [pc EXCEPT ![r] = "inflight"]
  /\ UNCHANGED <<inp, progress, next_file, file_contents, uploaded_data_content,
                 warnings, env, result, err, ret>>

\* the await completes with a result mapping; progress(1.0)
EngineReturns(r) ==
  /\ pc[r] = "inflight"
  /\ \E m \in EngineResults : result' = [result EXCEPT ![r] = m]
  /\ progress' = [progress EXCEPT ![r] = Append(@, 10)]
  /\ pc' = [pc EXCEPT ![r] = "extract"]
  /\ UNCHANGED <<inp, next_file, file_contents, uploaded_data_content, warnings,
                 env, calls, err, ret>>

\* an engine failure after which progress(1.0) is still reported, as from a
\* finally clause
EngineRaisesThenComplete(r) ==
  /\ pc[r] = "inflight"
  /\ \E e \in EngineErrors : Caught(r, e)
  /\ progress' = [progress EXCEPT ![r] = Append(@, 10)]
  /\ UNCHANGED <<inp, next_file, file_contents, uploaded_data_content,
                 warnings, env, calls, result>>

\* the await raises an Exception, which the except clause catches
EngineRaises(r) ==
  /\ pc[r] = "inflight"
  /\ \E e \in EngineErrors : Caught(r, e)
  /\ UNCHANGED <<inp, progress, next_file, file_contents, uploaded_data_content,
                 warnings, env, calls, result>>

\* "Extract results" up to the return; iterating an int raises TypeError
ExtractResults(r) ==
  /\ pc[r] = "extract"
  /\ LET report == Get(result[r], "running_summary", StrV(<<"No report generated">>))
         sources == Get(result[r], "sources_gathered", ListV(<<>>))
         loop_count == Get(result[r], "research_loop_count", IntV(0))
     IN IF Truthy(sources) /\ ~Iterable(sources)
          THEN Caught(r, "'int' object is not iterable")
          ELSE /\ ret' = [ret EXCEPT ![r] =
                            [ report |-> report,
                              sources |-> SourcesText(sources),
                              status |-> CompleteStatus(loop_count) ]]
               /\ pc' = [pc EXCEPT ![r] = "done"]
               /\ UNCHANGED err
  /\ UNCHANGED <<inp, progress, next_file, file_contents, uploaded_data_content,
                 warnings, env, calls, result>>

Next ==
  \E r \in Req :
    \/ Submit(r)
    \/ CheckQuery(r)
    \/ BeginFiles(r)
    \/ ReadFile(r)
    \/ EndFiles(r)
    \/ SetProvider(r)
    \/ SetModel(r)
    \/ SetMaxLoops(r)
    \/ CallEngine(r)
    \/ EngineReturns(r)
    \/ EngineRaises(r)
    \/ ExtractResults(r)

\* one session
Spec == Init /\ [][Next]_vars

\* two sessions on worker threads of one process
SpecConc == InitConc /\ [][Next]_vars

\* the statements of conduct_research itself: once started, its thread runs
\* them; the engine's return and the engine's exception are not among them
OwnStep(r) ==
  \/ CheckQuery(r)
  \/ BeginFiles(r)
  \/ ReadFile(r)
  \/ EndFiles(r)
  \/ SetProvider(r)
  \/ SetModel(r)
  \/ SetMaxLoops(r)
  \/ CallEngine(r)
  \/ ExtractResults(r)

\* one session whose own statements are always run in the end; the engine,
\* an external call awaited without a deadline, may never come back
SpecLive == Init /\ [][Next]_vars /\ \A r \in Req : WF_vars(OwnStep(r))

\* ------------------------------------------------------------- claims
Started(r) == pc[r] \notin {"off", "idle"}

\* the status texts that report an error open with the cross mark
IsErrorStatus(status) == status # <<>> /\ status[1] = CrossMark

\* the configuration a request was submitted with, as the environment holds it
Config(r) == <<inp[r].provider, inp[r].model, IntToStr(inp[r].max_loops)>>

EnvConfig == <<env.LLM_PROVIDER, env.LLM_MODEL, env.MAX_WEB_RESEARCH_LOOPS>>

\* C1: of two overlapping requests with distinct (provider, model, max_loops),
\* each one's engine call sees only its own configuration: its arguments, and
\* the process-wide LLM_PROVIDER, LLM_MODEL and MAX_WEB_RESEARCH_LOOPS at
\* every moment between its dispatch and its engine's return.
C1_OwnConfigurationOnly ==
  \A a, b \in Req :
    (/\ a # b
     /\ Started(a) /\ Started(b)
     /\ Config(a) # Config(b)
     /\ pc[a] = "inflight")
    => /\ calls[a][1].provider = inp[a].provider
       /\ calls[a][1].model = inp[a].model
       /\ EnvConfig = Config(a)

\* every token of the query is whitespace (the empty query included)
OnlyWhitespace(query) == \A i \in 1..Len(query) : query[i] \in Whitespace

\* C2: a query that is empty or only whitespace returns ("", "", error status)
\* at once: the engine is never called for it, no progress is reported, no
\* file is read and nothing is published.
C2_EmptyQueryShortCircuits ==
  \A r \in Req :
    (Started(r) /\ pc[r] # "check" /\ OnlyWhitespace(inp[r].query))
    => /\ pc[r] = "done"
       /\ ret[r].report = StrV(<<>>)
       /\ ret[r].sources = <<>>
       /\ IsErrorStatus(ret[r].status)
       /\ calls[r] = <<>>
       /\ progress[r] = <<>>
       /\ file_contents[r] = <<>> /\ warnings[r] = <<>>
       /\ err[r] = NoError

\* a whitespace-only query with files and a valid provider was turned away
C2_Witness ==
  \E r \in Req :
    /\ pc[r] = "done"
    /\ inp[r].query = <<" ", "\t", " ">>
    /\ inp[r].uploaded_files # <<>>
    /\ inp[r].provider = "openai"
    /\ ret[r] = EmptyQueryReturn

\* the returned triple is ("", "", status) and the status ends with message e
ErrorTriple(t, e) ==
  /\ t.report = StrV(<<>>)
  /\ t.sources = <<>>
  /\ IsErrorStatus(t.status)
  /\ t.status[Len(t.status)] = e

\* a step of the request failed: a file could not be read, or an exception
\* reached the except clause (configuration, engine call, extraction)
SomeStepFailed(r) == warnings[r] # <<>> \/ err[r] # NoError

\* C3 as stated: whatever step fails, file ingestion included, the request
\* ends with ("", "", error status) and never with a report or sources.
C3_Original ==
  \A r \in Req :
    (pc[r] = "done" /\ SomeStepFailed(r))
    => /\ ret[r].report = StrV(<<>>)
       /\ ret[r].sources = <<>>
       /\ IsErrorStatus(ret[r].status)

\* C3 amended: an exception raised while the configuration is written, by the
\* engine call or by result extraction ends the request at once with
\* ("", "", error status carrying the message); a file that cannot be read is
\* skipped and fails nothing; no request returns an error status together
\* with a report or sources.
C3_NoFailureEscapes ==
  \A r \in Req :
    /\ err[r] # NoError => pc[r] = "done" /\ ErrorTriple(ret[r], err[r])
    /\ (pc[r] = "done" /\ IsErrorStatus(ret[r].status))
         => ret[r].report = StrV(<<>>) /\ ret[r].sources = <<>>
    /\ (pc[r] = "done" /\ err[r] = NoError /\ ~OnlyWhitespace(inp[r].query))
         => ~IsErrorStatus(ret[r].status)

\* each kind of failure was met: configuration, engine, extraction
C3_Witness ==
  \E r \in Req :
    /\ pc[r] = "done"
    /\ err[r] = "'int' object is not iterable"
    /\ result[r].running_summary = StrV(<<"Report body">>)
    /\ warnings[r] # <<>>
    /\ ErrorTriple(ret[r], err[r])

\* C4 as stated: the engine is invoked exactly once when the query is not
\* empty, and at most once in every case.
C4_Original ==
  \A r \in Req :
    /\ Len(calls[r]) <= 1
    /\ (pc[r] = "done" /\ ~OnlyWhitespace(inp[r].query)) => Len(calls[r]) = 1

\* C4 amended: the engine is invoked at most once in every case, and exactly
\* once by every request with a non-empty query whose configuration could be
\* written (provider and model are strings); once the engine call has failed
\* the request is over and the engine was invoked that one time.
C4_SingleShot ==
  \A r \in Req :
    /\ Len(calls[r]) <= 1
    /\ (/\ pc[r] \in {"inflight", "extract", "done"}
        /\ ~OnlyWhitespace(inp[r].query)
        /\ IsStr(inp[r].provider) /\ IsStr(inp[r].model))
       => Len(calls[r]) = 1
    /\ err[r] \in EngineErrors => pc[r] = "done" /\ Len(calls[r]) = 1
    /\ pc[r] \in {"check", "files", "read", "set_provider", "set_model",
                   "set_loops", "call"} => calls[r] = <<>>

\* the engine call failed and the request ended Failed after one invocation
C4_Witness ==
  \E r \in Req :
    /\ pc[r] = "done"
    /\ err[r] \in EngineErrors
    /\ Len(calls[r]) = 1
    /\ IsErrorStatus(ret[r].status)

\* the request has published its loop count (and, in one session, nothing
\* has overwritten it since)
Published(r) == pc[r] = "call" \/ calls[r] # <<>>

\* C5: with minimum_effort = true the loop count published in
\* MAX_WEB_RESEARCH_LOOPS is 1 whatever max_loops and extra_effort are, and
\* extra_effort is not passed on to the engine as true.
C5_MinimumEffortForcesOneLoop ==
  \A r \in Req :
    (Published(r) /\ inp[r].minimum_effort)
    => /\ env.MAX_WEB_RESEARCH_LOOPS = <<"1">>
       /\ calls[r] # <<>> => ~calls[r][1].extra_effort

Clamp(n) ==
  IF n < SliderMin THEN SliderMin ELSE IF n > SliderMax THEN SliderMax ELSE n

\* C6: the loop count published in MAX_WEB_RESEARCH_LOOPS lies in [1, 20]:
\* max_loops below 1 is published as 1, above 20 as 20, in range unchanged
\* (requests in minimum effort mode, which C5 is about, set aside).
C6_LoopCountClamped ==
  \A r \in Req :
    (Published(r) /\ ~inp[r].minimum_effort)
    => /\ env.MAX_WEB_RESEARCH_LOOPS \in {IntToStr(n) : n \in SliderMin..SliderMax}
       /\ env.MAX_WEB_RESEARCH_LOOPS = IntToStr(Clamp(inp[r].max_loops))

\* C7: a request whose provider is no key of PROVIDERS ends in an error
\* result without any engine call; the engine is only ever called with a
\* provider that is a key of PROVIDERS.
C7_UnknownProviderRejected ==
  \A r \in Req :
    /\ calls[r] # <<>> => calls[r][1].provider \in DOMAIN PROVIDERS
    /\ (/\ pc[r] = "done"
        /\ ~OnlyWhitespace(inp[r].query)
        /\ inp[r].provider \notin DOMAIN PROVIDERS)
       => IsErrorStatus(ret[r].status) /\ calls[r] = <<>>

RECURSIVE ReadableOf(_)
\* the readable files of a list, in the order of the list
ReadableOf(files) ==
  IF files = <<>> THEN <<>>
  ELSE IF Head(files) \in Readable THEN <<Head(files)>> \o ReadableOf(Tail(files))
  ELSE ReadableOf(Tail(files))

\* the file names of the documents the request has ingested
DocNames(r) == [i \in 1..Len(file_contents[r]) |-> file_contents[r][i][2]]

\* the positions of the uploaded files that could not be read
Unreadable(r) ==
  {i \in 1..Len(inp[r].uploaded_files) : inp[r].uploaded_files[i] \notin Readable}

\* every token of the returned triple
ReturnedTokens(t) == t.report.q \o t.sources \o t.status

\* the unreadable files that the returned triple names
SkipWarningsReturned(r) ==
  {i \in Unreadable(r) :
     \E j \in 1..Len(ReturnedTokens(ret[r])) :
       ReturnedTokens(ret[r])[j] = inp[r].uploaded_files[i]}

IngestionOver(r) == pc[r] \in {"set_provider", "set_model", "set_loops", "call",
                                "inflight", "extract", "done"}

\* the engine call of the request returned a result mapping
EngineReturned(r) == progress[r] # <<>> /\ progress[r][Len(progress[r])] = 10

\* the part of C8 about the documents: every file was processed and the
\* documents are the readable files in upload order
C8_DocumentsInOrder ==
  \A r \in Req :
    (IngestionOver(r) /\ ~OnlyWhitespace(inp[r].query))
    => /\ Len(file_contents[r]) + Len(warnings[r]) = Len(inp[r].uploaded_files)
       /\ DocNames(r) = ReadableOf(inp[r].uploaded_files)
       /\ Len(warnings[r]) = Cardinality(Unreadable(r))

\* C8: of N uploaded files of which M cannot be read, all N are processed,
\* the documents are the N-M readable files in upload order, and the
\* returned result records exactly M skip warnings, one per failed file
\* (stated for the requests that end Completed).
C8_IngestionReported ==
  /\ C8_DocumentsInOrder
  /\ \A r \in Req :
       (pc[r] = "done" /\ EngineReturned(r) /\ err[r] = NoError)
       => Cardinality(SkipWarningsReturned(r)) = Cardinality(Unreadable(r))

\* sub occurs in text as a run of consecutive tokens
Contains(text, sub) ==
  \E i \in 1..(Len(text) - Len(sub) + 1) : SubSeq(text, i, i + Len(sub) - 1) = sub

\* C9: whatever keys of the result mapping are missing or mistyped,
\* extraction does not fail and the request ends Completed: a missing report
\* gives the placeholder, missing or empty sources give "No sources
\* gathered", a missing loop count gives 0.
C9_DefensiveExtraction ==
  \A r \in Req :
    (pc[r] = "done" /\ EngineReturned(r))
    => /\ err[r] = NoError
       /\ ~IsErrorStatus(ret[r].status)
       /\ result[r].running_summary = Missing
            => ret[r].report = StrV(<<"No report generated">>)
       /\ result[r].sources_gathered \in {Missing, ListV(<<>>)}
            => ret[r].sources = <<"No sources gathered">>
       /\ result[r].research_loop_count = Missing
            => Contains(ret[r].status, <<"0">>)

\* C10: when the engine's sources_gathered is a non-empty list s1..sk, the
\* returned sources are the k lines "- s1" .. "- sk" joined by newlines in
\* that order, the returned report is running_summary unchanged, and the
\* status contains research_loop_count.
C10_SourcesRendered ==
  \A r \in Req :
    (/\ pc[r] = "done" /\ EngineReturned(r)
     /\ result[r].sources_gathered.t = "list"
     /\ result[r].sources_gathered.q # <<>>)
    => LET s == result[r].sources_gathered.q
           out == ret[r].sources
           summary == result[r].running_summary
           loops == result[r].research_loop_count
       IN /\ Len(out) = 3 * Len(s) - 1
          /\ \A i \in 1..Len(s) :
               /\ out[3 * i - 2] = "- "
               /\ out[3 * i - 1] = s[i]
               /\ i < Len(s) => out[3 * i] = "\n"
          /\ summary # Missing => ret[r].report = summary
          /\ loops.t = "int" => Contains(ret[r].status, IntToStr(loops.n))
          /\ loops.t = "str" => Contains(ret[r].status, loops.q)
          /\ ret[r].status[1] = CheckMark

\* the end-to-end example: two sources, a report body and five loops
C10_Witness ==
  \E r \in Req :
    /\ pc[r] = "done"
    /\ result[r].sources_gathered = ListV(<<"https://a.com", "https://b.com">>)
    /\ ret[r].sources = <<"- ", "https://a.com", "\n", "- ", "https://b.com">>
    /\ ret[r].report = StrV(<<"Report body">>)
    /\ Contains(ret[r].status, <<"5">>)

\* the milestones (x10) of a request in their fixed order: 0.1, 0.2 only
\* with uploaded files, 0.3, 1.0
Milestones(r) ==
  <<1>> \o (IF inp[r].uploaded_files # <<>> THEN <<2>> ELSE <<>>) \o <<3, 10>>

\* C11: within one request the reported fractions never decrease and follow
\* the fixed order 0.1, then 0.2 only if files were uploaded, then 0.3, then
\* 1.0: at every moment the fractions reported so far are a prefix of that
\* order, so none is reported twice or out of order.
C11_ProgressInOrder ==
  \A r \in Req :
    /\ Len(progress[r]) <= Len(Milestones(r))
    /\ progress[r] = SubSeq(Milestones(r), 1, Len(progress[r]))
    /\ \A i, j \in 1..Len(progress[r]) : i < j => progress[r][i] < progress[r][j]

\* a request with uploaded files completed having reported 0.1, 0.2, 0.3, 1.0
C11_Witness ==
  \E r \in Req :
    /\ pc[r] = "done"
    /\ inp[r].uploaded_files # <<>>
    /\ progress[r] = <<1, 2, 3, 10>>

\* C12: every dispatched request reaches a terminal result in the end, also
\* when its engine call never returns: a deadline on the call then moves it
\* to Failed instead of leaving it dispatched for ever.
C12_DispatchedTerminates ==
  \A r \in Req : (pc[r] = "inflight") ~> (pc[r] = "done")

\* model is one of the models PROVIDERS lists for provider
ListedFor(provider, model) ==
  \E i \in 1..Len(get_models_for_provider(provider)) :
    get_models_for_provider(provider)[i] = model

\* C13: whenever the engine is called, the model it is given is listed in
\* PROVIDERS for the provider it is given; a request whose model is not
\* listed is dispatched with the provider's first model instead.
C13_ModelBelongsToProvider ==
  \A r \in Req :
    (calls[r] # <<>> /\ calls[r][1].provider \in DOMAIN PROVIDERS)
    => /\ ListedFor(calls[r][1].provider, calls[r][1].model)
       /\ ~ListedFor(inp[r].provider, inp[r].model)
            => calls[r][1].model = get_models_for_provider(inp[r].provider)[1]

\* the request has reported the 1.0 "complete" milestone
ReportedComplete(r) == \E i \in 1..Len(progress[r]) : progress[r][i] = 10

\* the mapping the engine returned cannot be extracted: its sources are a
\* truthy value that is no sequence
Unextractable(m) ==
  /\ m.sources_gathered.t = "int"
  /\ m.sources_gathered.n # 0

\* C14: 1.0 is reported only after the request's engine call has returned
\* without raising: a request whose engine call failed or was never made
\* reports no 1.0, and a request that returns an error status after 1.0
\* failed in result extraction, not in the engine call.
C14_CompleteOnlyAfterEngineReturn ==
  \A r \in Req :
    /\ ReportedComplete(r)
         => /\ pc[r] \in {"extract", "done"}
            /\ Len(calls[r]) = 1
            /\ err[r] \notin EngineErrors
    /\ (calls[r] = <<>> \/ err[r] \in EngineErrors \/ pc[r] = "inflight")
         => ~ReportedComplete(r)
    /\ (pc[r] = "done" /\ IsErrorStatus(ret[r].status) /\ ReportedComplete(r))
         => /\ Unextractable(result[r])
            /\ err[r] = "'int' object is not iterable"

\* a request reported 1.0 and then failed while extracting the result
C14_Witness ==
  \E r \in Req :
    /\ pc[r] = "done"
    /\ ReportedComplete(r)
    /\ IsErrorStatus(ret[r].status)
    /\ Unextractable(result[r])

====
